---- MODULE Spec2Model ----
(***************************************************************************)
(* Attach orchestration of sourcekit-bazel-bsp's lldb helper scripts.      *)
(*                                                                         *)
(* Three scripts ("variants") are modelled, each a straight-line program   *)
(* run once by the debugger host:                                          *)
(*   "inject"  Example/scripts/lldb_inject_settings.py                     *)
(*   "cli"     Example/scripts/lldb_attach.py                              *)
(*   "ide"     ide/vscode/scripts/lldb_attach.py                           *)
(*   "kill"    ide/vscode/scripts/lldb_kill_app.py                         *)
(* The debugging engine is the command interpreter behind HandleCommand:   *)
(* it may accept or reject every directive, and it keeps the ordered       *)
(* target.source-map rule list.                                            *)
(***************************************************************************)
EXTENDS Integers, Sequences, FiniteSets, TLC

VARIABLES
    variant,            \* which script is running
    pc,                 \* position of the script
    launch_file,        \* /tmp/lldb-bridge/launch_info on disk
    output_base_file,   \* /tmp/lldb-bridge/output_base on disk
    bazel_info_src,     \* what the build tool's info query answers
    cwd,                \* os.getcwd() of the host
    launch_info,        \* script local
    output_base,        \* script local
    execution_root,     \* script local (ide)
    workspace_root,     \* script local (ide)
    device_platform,    \* script local
    device_udid,        \* script local
    debug_pid,          \* script local
    step,               \* index of the next run_command call of the script
    issued,             \* directives handed to HandleCommand, in order
    result,             \* SBCommandReturnObject of the latest HandleCommand
    source_map,         \* the engine's target.source-map rule list
    completed,          \* number of HandleCommand calls that have returned
    console,            \* what the latest statement printed (out / err)
    exc,                \* the exception that ended the script, if any
    exit_code,          \* os._exit status, NoExit while the process lives
    debugger_terminated, \* lldb.SBDebugger.Terminate() was called
    kill_pid,           \* lldb_kill_app.py's debug_pid, 0 before it is read
    signal              \* what became of the os.kill call, "none" before it

vars == <<variant, pc, launch_file, output_base_file, bazel_info_src, cwd,
          launch_info, output_base, execution_root, workspace_root,
          device_platform, device_udid, debug_pid, step, issued, result,
          source_map, completed, console, exc, exit_code, debugger_terminated,
          kill_pid, signal>>

terminator == <<kill_pid, signal>>

env == <<variant, launch_file, output_base_file, bazel_info_src, cwd>>

locals == <<launch_info, output_base, execution_root, workspace_root,
            device_platform, device_udid, debug_pid>>

engine == <<issued, result, source_map, completed>>

-----------------------------------------------------------------------------
(* Bounds and input sets *)

MaxPre == 2     \* longest pre-existing target.source-map rule list

Variants == {"inject", "cli", "ide", "kill"}

Platforms == {"device", "iphonesimulator", "macosx"}

Udids == {"SIM-1", "00008110-ABCDEF"}

Pids == {777, 4242}

OutputBases == {"/tmp/ob", "/var/_bazel/ab12"}

Whitespace == {"\n", " "}

NoExit == -1

EmptyRecord == [k \in {} |-> ""]

NoExc == [type |-> "", msg |-> ""]

NoResult == [succeeded |-> TRUE, output |-> "", error |-> ""]

Silent == [out |-> <<>>, err |-> <<>>]

-----------------------------------------------------------------------------
(* Text helpers *)

Digits == <<"0", "1", "2", "3", "4", "5", "6", "7", "8", "9">>

RECURSIVE str(_)
str(n) == IF n < 10 THEN Digits[n + 1]
          ELSE str(n \div 10) \o Digits[(n % 10) + 1]

RECURSIVE lstrip(_)
lstrip(pieces) ==
    IF pieces # <<>> /\ Head(pieces) \in Whitespace
    THEN lstrip(Tail(pieces)) ELSE pieces

RECURSIVE rstrip(_)
rstrip(pieces) ==
    IF pieces # <<>> /\ pieces[Len(pieces)] \in Whitespace
    THEN rstrip(SubSeq(pieces, 1, Len(pieces) - 1)) ELSE pieces

RECURSIVE join(_)
join(pieces) == IF pieces = <<>> THEN "" ELSE Head(pieces) \o join(Tail(pieces))

strip(pieces) == join(rstrip(lstrip(pieces)))

Quoted(s) == "\"" \o s \o "\""

-----------------------------------------------------------------------------
(* Directives: the text handed to the engine, with the parts the engine   *)
(* reads out of it.  index, from and to are set for source-map directives.*)

Directive(kind, text) ==
    [kind |-> kind, text |-> text, index |-> -1, from |-> "", to |-> ""]

WorkingDirectoryCmd(dir) ==
    Directive("workdir", "platform settings -w " \o Quoted(dir))

InsertBeforeCmd(idx, from, to) ==
    [kind |-> "insert-before",
     text |-> "settings insert-before target.source-map " \o str(idx)
              \o " " \o Quoted(from) \o " " \o Quoted(to),
     index |-> idx, from |-> from, to |-> to]

AppendCmd(from, to) ==
    [kind |-> "append",
     text |-> "settings append target.source-map "
              \o Quoted(from) \o " " \o Quoted(to),
     index |-> -1, from |-> from, to |-> to]

PacketTimeoutCmd ==
    Directive("packet-timeout",
              "settings set plugin.process.gdb-remote.packet-timeout 300")

DeviceSelectCmd(udid) == Directive("device-select", "device select " \o udid)

PlatformSelectCmd(platform) ==
    Directive("platform-select", "platform select " \o platform)

PlatformConnectCmd(udid) ==
    Directive("platform-connect", "platform connect " \o udid)

DeviceAttachCmd(pid) ==
    Directive("device-attach", "device process attach --pid " \o pid)

ProcessAttachCmd(pid) ==
    Directive("process-attach", "process attach --pid " \o pid)

SourceMapKinds == {"insert-before", "append"}

TargetKinds == {"device-select", "platform-select", "platform-connect"}

AttachKinds == {"device-attach", "process-attach"}

-----------------------------------------------------------------------------
(* The run_command calls of each script, in program order *)

\* the external rule inserted before index 1 instead of index 0
ExternalRuleCmd_AtOne == InsertBeforeCmd(1, "./external/", output_base \o "/external/")

\* the external rule appended instead of inserted at the front
ExternalRuleCmd_Appended == AppendCmd("./external/", output_base \o "/external/")

ExternalRuleCmd == InsertBeforeCmd(0, "./external/", output_base \o "/external/")

\* the working directory set to the output base itself
ExampleWorkingDirectory_OutputBase == WorkingDirectoryCmd(output_base)

ExampleWorkingDirectory ==
    WorkingDirectoryCmd(output_base \o "/execroot/_main")

\* the general rule inserted at the front instead of appended
ExampleGeneralRuleCmd_Inserted ==
    InsertBeforeCmd(0, "./", output_base \o "/execroot/_main/")

ExampleGeneralRuleCmd == AppendCmd("./", output_base \o "/execroot/_main/")

ExampleSettings ==
    <<ExampleWorkingDirectory, ExternalRuleCmd, ExampleGeneralRuleCmd>>

IdeWorkingDirectory == WorkingDirectoryCmd(execution_root)

IdeGeneralRuleCmd == AppendCmd(".", workspace_root)

\* the ide script issuing its two source-map directives in the Example order
IdeSettings_InsertFirst ==
    <<IdeWorkingDirectory, ExternalRuleCmd, IdeGeneralRuleCmd, PacketTimeoutCmd>>

IdeSettings ==
    <<IdeWorkingDirectory, IdeGeneralRuleCmd, ExternalRuleCmd, PacketTimeoutCmd>>

\* the dispatch with its test inverted
SelectTarget_Inverted ==
    IF device_platform # "device"
    THEN <<DeviceSelectCmd(device_udid)>>
    ELSE <<PlatformSelectCmd(device_platform), PlatformConnectCmd(device_udid)>>

\* the emulated-target branch connecting before it selects the platform
SelectTarget_ConnectFirst ==
    IF device_platform = "device"
    THEN <<DeviceSelectCmd(device_udid)>>
    ELSE <<PlatformConnectCmd(device_udid), PlatformSelectCmd(device_platform)>>

SelectTarget ==
    IF device_platform = "device"
    THEN <<DeviceSelectCmd(device_udid)>>
    ELSE <<PlatformSelectCmd(device_platform), PlatformConnectCmd(device_udid)>>

\* the second dispatch with its test inverted
AttachProcess_Inverted ==
    IF device_platform # "device"
    THEN <<DeviceAttachCmd(debug_pid)>>
    ELSE <<ProcessAttachCmd(debug_pid)>>

AttachProcess ==
    IF device_platform = "device"
    THEN <<DeviceAttachCmd(debug_pid)>>
    ELSE <<ProcessAttachCmd(debug_pid)>>

InjectScript == ExampleSettings

CliScript_AttachBeforeSelect == ExampleSettings \o AttachProcess \o SelectTarget

CliScript == ExampleSettings \o SelectTarget \o AttachProcess

\* the ide script raising the packet timeout after the attach
IdeScript_TimeoutLast ==
    SubSeq(IdeSettings, 1, 3) \o SelectTarget \o AttachProcess
        \o <<PacketTimeoutCmd>>

IdeScript == IdeSettings \o SelectTarget \o AttachProcess

\* lldb_kill_app.py calls run_command nowhere
KillScript == <<>>

Script ==
    CASE variant = "inject" -> InjectScript
      [] variant = "cli"    -> CliScript
      [] variant = "ide"    -> IdeScript
      [] variant = "kill"   -> KillScript

-----------------------------------------------------------------------------
(* The engine behind HandleCommand *)

Rule(from, to) == [from |-> from, to |-> to]

InsertAt(map, idx, rule) ==
    SubSeq(map, 1, idx) \o <<rule>> \o SubSeq(map, idx + 1, Len(map))

\* A source-map insert is rejected when its index is past the end of the list.
Acceptable(command, map) ==
    command.kind = "insert-before" => command.index \in 0..Len(map)

\* The rule list after the engine has carried out an accepted directive.
HandleCommand(command, map) ==
    CASE command.kind = "insert-before" ->
            InsertAt(map, command.index, Rule(command.from, command.to))
      [] command.kind = "append" ->
            Append(map, Rule(command.from, command.to))
      [] OTHER -> map

\* Embedded source paths the engine is asked to resolve, and the remainders
\* they leave behind the rule prefixes in use.
EmbeddedPaths ==
    {"./external/dep/a.swift", "./external/", "./Sources/App/main.swift",
     "/old/src/x.c"}

PathTails ==
    {"", "dep/a.swift", "external/dep/a.swift", "/external/dep/a.swift",
     "external/", "/external/", "Sources/App/main.swift",
     "/Sources/App/main.swift", "/x.c"}

StartsWith(path, prefix) == \E t \in PathTails : prefix \o t = path

Remainder(path, prefix) == CHOOSE t \in PathTails : prefix \o t = path

\* Index of the first rule whose fromPrefix begins the path, 0 when none does.
RECURSIVE FirstMatchFrom(_, _, _)
FirstMatchFrom(map, path, i) ==
    IF i > Len(map) THEN 0
    ELSE IF StartsWith(path, map[i].from) THEN i
    ELSE FirstMatchFrom(map, path, i + 1)

FirstMatch(map, path) == FirstMatchFrom(map, path, 1)

\* First-match-wins rewrite of an embedded path by the rule list.
RemapPath(map, path) ==
    LET i == FirstMatch(map, path) IN
    IF i = 0 THEN path
    ELSE map[i].to \o Remainder(path, map[i].from)

EngineOutputs == {"", "ok"}

EngineErrors == {"", "error: the engine rejected the command"}

Results(command, map) ==
    {[succeeded |-> FALSE, output |-> "", error |-> e] : e \in EngineErrors}
    \cup (IF Acceptable(command, map)
          THEN {[succeeded |-> TRUE, output |-> o, error |-> ""] :
                    o \in EngineOutputs}
          ELSE {})


-----------------------------------------------------------------------------
(* Inputs of a run *)

LaunchKeys == {"platform", "udid", "pid"}

FullLaunch == [platform : Platforms, udid : Udids, pid : Pids]

BaseLaunch == [platform |-> "iphonesimulator", udid |-> "SIM-1", pid |-> 4242]

\* Launch records that lack one or more of the three keys.
PartialLaunch ==
    {[k \in ks |-> BaseLaunch[k]] : ks \in (SUBSET LaunchKeys) \ {LaunchKeys}}

\* Launch records whose platform or udid is the empty string.
EmptyFieldLaunch ==
    {[BaseLaunch EXCEPT !.platform = ""], [BaseLaunch EXCEPT !.udid = ""]}

LaunchJsons == FullLaunch \cup PartialLaunch \cup EmptyFieldLaunch

AbsentFile == [exists |-> FALSE, json |-> EmptyRecord]

LaunchFiles == {AbsentFile} \cup {[exists |-> TRUE, json |-> j] : j \in LaunchJsons}

AbsentText == [exists |-> FALSE, text |-> <<>>]

OutputBaseFiles ==
    {AbsentText}
    \cup {[exists |-> TRUE, text |-> <<b>>] : b \in OutputBases}
    \cup {[exists |-> TRUE, text |-> <<b, "\n">>] : b \in OutputBases}

NoBazelInfo == [exists |-> FALSE, info |-> EmptyRecord]

BazelInfos ==
    {[output_base |-> b, execution_root |-> b \o "/execroot/_main"] :
        b \in OutputBases}
    \cup {[output_base |-> "/tmp/ob", execution_root |-> "/tmp/ob/execroot/app"]}

BazelInfoSources ==
    {NoBazelInfo} \cup {[exists |-> TRUE, info |-> i] : i \in BazelInfos}

Workspaces == {"/Users/dev/app"}

PreRules ==
    {Rule("./external/", "/tmp/ob/external/"),
     Rule("./", "/tmp/ob/execroot/_main/"),
     Rule("/old/src", "/new/src")}

PreMaps == UNION {[1..n -> PreRules] : n \in 0..MaxPre}

\* lldb_inject_settings.py reading the output base before its existence check
FirstPc_ReadFirst ==
    [inject |-> "read_output_base", cli |-> "load_launch_info",
     ide |-> "load_launch_info", kill |-> "load_launch_info"]

FirstPc ==
    [inject |-> "check_launch_info", cli |-> "load_launch_info",
     ide |-> "load_launch_info", kill |-> "load_launch_info"]

Init ==
    /\ variant \in Variants
    /\ pc = FirstPc[variant]
    /\ launch_file \in LaunchFiles
    /\ output_base_file \in
          (IF variant \in {"ide", "kill"} THEN {AbsentText} ELSE OutputBaseFiles)
    /\ bazel_info_src \in
          (IF variant = "ide" THEN BazelInfoSources ELSE {NoBazelInfo})
    /\ cwd \in Workspaces
    /\ launch_info = EmptyRecord
    /\ output_base = ""
    /\ execution_root = ""
    /\ workspace_root = ""
    /\ device_platform = ""
    /\ device_udid = ""
    /\ debug_pid = ""
    /\ step = 1
    /\ issued = <<>>
    /\ result = NoResult
    /\ completed = 0
    /\ source_map \in (IF variant = "kill" THEN {<<>>} ELSE PreMaps)
    /\ console = Silent
    /\ exc = NoExc
    /\ exit_code = NoExit
    /\ debugger_terminated = FALSE
    /\ kill_pid = 0
    /\ signal = "none"

-----------------------------------------------------------------------------
(* Ways a script ends *)

\* print to stderr, lldb.SBDebugger.Terminate(), os._exit(0)
ExitCleanly ==
    /\ console' = [out |-> <<>>, err |-> <<"Launch info file not found. Exiting.">>]
    /\ debugger_terminated' = TRUE
    /\ exit_code' = 0
    /\ pc' = "exited"
    /\ exc' = NoExc

\* an uncaught exception unwinds the module body
Raise(type, msg) ==
    /\ exc' = [type |-> type, msg |-> msg]
    /\ pc' = "raised"
    /\ console' = Silent
    /\ UNCHANGED <<exit_code, debugger_terminated>>

Continue(next) ==
    /\ pc' = next
    /\ console' = Silent
    /\ UNCHANGED <<exc, exit_code, debugger_terminated>>

-----------------------------------------------------------------------------
(* Loading the launch context and the build locations *)

\* the script without its existence check
CheckLaunchInfoPath_NoCheck ==
    /\ variant = "inject"
    /\ pc = "check_launch_info"
    /\ Continue("read_output_base")
    /\ UNCHANGED <<env, terminator, locals, step, engine>>

\* lldb_inject_settings.py: if not launch_info_path.exists(): ... os._exit(0)
CheckLaunchInfoPath ==
    /\ variant = "inject"
    /\ pc = "check_launch_info"
    /\ IF ~launch_file.exists
       THEN ExitCleanly
       ELSE Continue("read_output_base")
    /\ UNCHANGED <<env, terminator, locals, step, engine>>

\* the read falling back to an empty output base when the file is absent
ReadOutputBase_DefaultsEmpty ==
    /\ variant = "inject"
    /\ pc = "read_output_base"
    /\ output_base' = IF output_base_file.exists
                      THEN strip(output_base_file.text) ELSE ""
    /\ Continue("parse_launch_info")
    /\ UNCHANGED <<env, terminator, launch_info, execution_root, workspace_root,
                   device_platform, device_udid, debug_pid, step, engine>>

\* lldb_inject_settings.py: output_base = Path(...).read_text().strip()
ReadOutputBase ==
    /\ variant = "inject"
    /\ pc = "read_output_base"
    /\ IF ~output_base_file.exists
       THEN /\ Raise("FileNotFoundError", "/tmp/lldb-bridge/output_base")
            /\ UNCHANGED output_base
       ELSE /\ output_base' = strip(output_base_file.text)
            /\ Continue("parse_launch_info")
    /\ UNCHANGED <<env, terminator, launch_info, execution_root, workspace_root,
                   device_platform, device_udid, debug_pid, step, engine>>

\* lldb_inject_settings.py: launch_info = json.loads(launch_info_path.read_text())
ParseLaunchInfo ==
    /\ variant = "inject"
    /\ pc = "parse_launch_info"
    /\ IF ~launch_file.exists
       THEN /\ Raise("FileNotFoundError", "/tmp/lldb-bridge/launch_info")
            /\ UNCHANGED launch_info
       ELSE /\ launch_info' = launch_file.json
            /\ Continue("read_fields")
    /\ UNCHANGED <<env, terminator, output_base, execution_root, workspace_root,
                   device_platform, device_udid, debug_pid, step, engine>>

\* lldb_common.load_launch_info: an absent record means "do nothing":
\* log and exit with status zero; otherwise the parsed record is returned.
load_launch_info ==
    /\ variant \in {"cli", "ide", "kill"}
    /\ pc = "load_launch_info"
    /\ IF ~launch_file.exists
       THEN /\ ExitCleanly
            /\ UNCHANGED launch_info
       ELSE /\ launch_info' = launch_file.json
            /\ Continue(CASE variant = "cli"  -> "load_output_base"
                          [] variant = "ide"  -> "load_bazel_info"
                          [] variant = "kill" -> "read_pid")
    /\ UNCHANGED <<env, terminator, output_base, execution_root, workspace_root,
                   device_platform, device_udid, debug_pid, step, engine>>

\* lldb_common.load_output_base: the output base path of the side-channel
\* file; fatal when the file is absent.
load_output_base ==
    /\ variant = "cli"
    /\ pc = "load_output_base"
    /\ IF ~output_base_file.exists
       THEN /\ Raise("MissingBuildInfo", "/tmp/lldb-bridge/output_base")
            /\ UNCHANGED output_base
       ELSE /\ output_base' = strip(output_base_file.text)
            /\ Continue("read_fields")
    /\ UNCHANGED <<env, terminator, launch_info, execution_root, workspace_root,
                   device_platform, device_udid, debug_pid, step, engine>>

\* ide lldb_attach.py lines 5-8: bazel_info = load_bazel_info(), its two
\* keys, and workspace_root = os.getcwd(); fatal when the query fails.
load_bazel_info ==
    /\ variant = "ide"
    /\ pc = "load_bazel_info"
    /\ IF ~bazel_info_src.exists
       THEN /\ Raise("MissingBuildInfo", "bazel info")
            /\ UNCHANGED <<output_base, execution_root, workspace_root>>
       ELSE /\ output_base' = bazel_info_src.info.output_base
            /\ execution_root' = bazel_info_src.info.execution_root
            /\ workspace_root' = cwd
            /\ Continue("read_fields")
    /\ UNCHANGED <<env, terminator, launch_info, device_platform, device_udid, debug_pid,
                   step, engine>>

\* device_platform = launch_info["platform"]; device_udid = launch_info["udid"];
\* debug_pid = str(launch_info["pid"]) -- the first missing key raises KeyError
ReadLaunchFields ==
    /\ pc = "read_fields"
    /\ IF "platform" \notin DOMAIN launch_info
       THEN /\ Raise("KeyError", "platform")
            /\ UNCHANGED <<device_platform, device_udid, debug_pid>>
       ELSE IF "udid" \notin DOMAIN launch_info
       THEN /\ Raise("KeyError", "udid")
            /\ device_platform' = launch_info["platform"]
            /\ UNCHANGED <<device_udid, debug_pid>>
       ELSE IF "pid" \notin DOMAIN launch_info
       THEN /\ Raise("KeyError", "pid")
            /\ device_platform' = launch_info["platform"]
            /\ device_udid' = launch_info["udid"]
            /\ UNCHANGED debug_pid
       ELSE /\ device_platform' = launch_info["platform"]
            /\ device_udid' = launch_info["udid"]
            /\ debug_pid' = str(launch_info["pid"])
            /\ Continue("run")
    /\ UNCHANGED <<env, terminator, launch_info, output_base, execution_root,
                   workspace_root, step, engine>>

-----------------------------------------------------------------------------
(* Issuing directives *)

CommandFailed == "Command failed. See above for any error messages."

\* run_command that reports a failure but does not raise
run_command_NoRaise(command, res) ==
    /\ issued' = Append(issued, command)
    /\ result' = res
    /\ completed' = completed + 1
    /\ source_map' = IF res.succeeded THEN HandleCommand(command, source_map)
                                      ELSE source_map
    /\ console' = [out |-> <<"(lldb) " \o command.text>>,
                   err |-> IF res.error # "" THEN <<res.error>> ELSE <<>>]
    /\ exc' = NoExc

\* run_command that drops the engine's error text
run_command_SilentError(command, res) ==
    /\ issued' = Append(issued, command)
    /\ result' = res
    /\ completed' = completed + 1
    /\ source_map' = IF res.succeeded THEN HandleCommand(command, source_map)
                                      ELSE source_map
    /\ console' = [out |-> <<"(lldb) " \o command.text>>
                           \o (IF res.succeeded /\ res.output # ""
                               THEN <<res.output>> ELSE <<>>),
                   err |-> <<>>]
    /\ exc' = IF res.succeeded THEN NoExc
              ELSE [type |-> "RuntimeError", msg |-> CommandFailed]

\* run_command handing the directive over without waiting for its result
run_command_FireAndForget(command, res) ==
    /\ issued' = Append(issued, command)
    /\ UNCHANGED <<result, completed>>
    /\ source_map' = IF res.succeeded THEN HandleCommand(command, source_map)
                                      ELSE source_map
    /\ console' = [out |-> <<"(lldb) " \o command.text>>, err |-> <<>>]
    /\ exc' = NoExc

\* run_command(command), the engine answering with res.  The two attach
\* scripts import run_command from lldb_common; it is taken to be the
\* function lldb_inject_settings.py defines inline.
run_command(command, res) ==
    /\ issued' = Append(issued, command)
    /\ result' = res
    /\ completed' = completed + 1
    /\ IF res.succeeded
       THEN /\ source_map' = HandleCommand(command, source_map)
            /\ console' = [out |-> <<"(lldb) " \o command.text>>
                                   \o (IF res.output # "" THEN <<res.output>>
                                                          ELSE <<>>),
                           err |-> <<>>]
            /\ exc' = NoExc
       ELSE /\ source_map' = source_map
            /\ console' = [out |-> <<"(lldb) " \o command.text>>,
                           err |-> IF res.error # "" THEN <<res.error>>
                                                     ELSE <<>>]
            /\ exc' = [type |-> "RuntimeError", msg |-> CommandFailed]

\* the script trying a failed directive again
RunNextCommand_Retry ==
    /\ pc = "run"
    /\ step \in 1..Len(Script)
    /\ \E res \in Results(Script[step], source_map) :
          run_command(Script[step], res)
    /\ IF exc' # NoExc
       THEN /\ pc' = "run"
            /\ step' = step
       ELSE /\ step' = step + 1
            /\ pc' = IF step = Len(Script) THEN "done" ELSE "run"
    /\ UNCHANGED <<env, terminator, locals, exit_code, debugger_terminated>>

\* The next run_command call of the script; an exception ends the script,
\* and the script is done after its last call has returned.
RunNextCommand ==
    /\ pc = "run"
    /\ step \in 1..Len(Script)
    /\ \E res \in Results(Script[step], source_map) :
          run_command(Script[step], res)
    /\ IF exc' # NoExc
       THEN /\ pc' = "raised"
            /\ step' = step
       ELSE /\ step' = step + 1
            /\ pc' = IF step = Len(Script) THEN "done" ELSE "run"
    /\ UNCHANGED <<env, terminator, locals, exit_code, debugger_terminated>>

-----------------------------------------------------------------------------
(* The process terminator, lldb_kill_app.py *)

KillOutcomes == {"delivered", "no_such_process", "permission_denied", "pid_reused"}

\* What os.kill raises for an outcome; "" when it returns normally.  A reused
\* pid names some live process, so the call returns as for a delivery.
KillError(outcome) ==
    CASE outcome = "no_such_process"   -> "ProcessLookupError"
      [] outcome = "permission_denied" -> "PermissionError"
      [] OTHER                         -> ""

\* debug_pid = int(launch_info["pid"])
ReadKillPid ==
    /\ variant = "kill"
    /\ pc = "read_pid"
    /\ IF "pid" \notin DOMAIN launch_info
       THEN /\ Raise("KeyError", "pid")
            /\ UNCHANGED kill_pid
       ELSE /\ kill_pid' = launch_info["pid"]
            /\ Continue("kill")
    /\ UNCHANGED <<env, locals, step, engine, signal>>

\* the terminator handling only the "no such process" error
KillProcess_CatchLookupOnly ==
    /\ variant = "kill"
    /\ pc = "kill"
    /\ \E outcome \in KillOutcomes :
          /\ signal' = outcome
          /\ IF KillError(outcome) \in {"", "ProcessLookupError"}
             THEN Continue("done")
             ELSE Raise(KillError(outcome), "os.kill")
    /\ UNCHANGED <<env, locals, step, engine, kill_pid>>

\* try: os.kill(debug_pid, signal.SIGKILL) / except Exception: pass
KillProcess ==
    /\ variant = "kill"
    /\ pc = "kill"
    /\ \E outcome \in KillOutcomes :
          /\ signal' = outcome
          /\ IF KillError(outcome) \in {"", "ProcessLookupError", "PermissionError"}
             THEN Continue("done")
             ELSE Raise(KillError(outcome), "os.kill")
    /\ UNCHANGED <<env, locals, step, engine, kill_pid>>

Next ==
    \/ CheckLaunchInfoPath
    \/ ReadOutputBase
    \/ ParseLaunchInfo
    \/ load_launch_info
    \/ load_output_base
    \/ load_bazel_info
    \/ ReadLaunchFields
    \/ RunNextCommand
    \/ ReadKillPid
    \/ KillProcess

Spec == Init /\ [][Next]_vars

TypeOK ==
    /\ variant \in Variants
    /\ pc \in {"check_launch_info", "read_output_base", "parse_launch_info",
               "load_launch_info", "load_output_base", "load_bazel_info",
               "read_fields", "run", "done", "raised", "exited",
               "read_pid", "kill"}
    /\ step \in 1..(Len(Script) + 1)
    /\ exit_code \in {NoExit, 0}
    /\ debugger_terminated \in BOOLEAN


-----------------------------------------------------------------------------
(* Properties *)

Last(seq) == seq[Len(seq)]

IssuedTexts == [i \in 1..Len(issued) |-> issued[i].text]

IssuedAt(kinds) == {i \in 1..Len(issued) : issued[i].kind \in kinds}

AttachVariants == {"cli", "ide"}

\* The stage of the algorithm a directive belongs to; 0 for the
\* packet-timeout directive, which belongs to no ordered stage.
Stage(command) ==
    CASE command.kind = "workdir"         -> 1
      [] command.kind \in SourceMapKinds  -> 2
      [] command.kind \in TargetKinds     -> 3
      [] command.kind \in AttachKinds     -> 4
      [] OTHER                            -> 0

\* C1: in both attach variants the working-directory directive comes
\* strictly before every source-map directive, every source-map directive
\* strictly before every target selection/connection directive, and every
\* target selection/connection directive strictly before the attach
\* directive; a completed run has issued a directive of each stage.
C1_StageOrder ==
    variant \in AttachVariants =>
        /\ \A i, j \in 1..Len(issued) :
              (/\ Stage(issued[i]) # 0
               /\ Stage(issued[j]) # 0
               /\ Stage(issued[i]) < Stage(issued[j])) => i < j
        /\ pc = "done" =>
              /\ Cardinality(IssuedAt({"workdir"})) = 1
              /\ Cardinality(IssuedAt(SourceMapKinds)) = 2
              /\ IssuedAt(TargetKinds) # {}
              /\ Cardinality(IssuedAt(AttachKinds)) = 1

C1_Witness ==
    /\ variant = "ide"
    /\ pc = "done"
    /\ Len(issued) = 7
    /\ Last(issued).kind = "process-attach"

\* C2: once the engine has reported failure for a directive, run_command
\* has raised (the script has ended with its RuntimeError, the failed
\* directive being the last one issued) and no further directive is issued.
C2_AbortOnFailure ==
    /\ [](~result.succeeded =>
            /\ pc = "raised"
            /\ exc.type = "RuntimeError"
            /\ Len(issued) = step
            /\ Last(issued) = Script[step])
    /\ [][~result.succeeded => issued' = issued]_vars

C2_Witness ==
    /\ ~result.succeeded
    /\ variant = "ide"
    /\ Len(issued) = 5
    /\ Last(issued).kind = "device-select"


\* C3: when the launch-info source is absent the script issues no engine
\* directive and raises nothing; it ends by exiting with status zero.
C3_MissingLaunchInfoExitsCleanly ==
    ~launch_file.exists =>
        /\ issued = <<>>
        /\ exc = NoExc
        /\ pc \in {FirstPc[variant], "exited"}
        /\ pc = "exited" => exit_code = 0

C3_Witness ==
    /\ variant = "inject"
    /\ ~launch_file.exists
    /\ pc = "exited"
    /\ exit_code = 0
    /\ issued = <<>>

\* The decimal text of the pids of the input set, written out.
PidText == [p \in Pids |-> IF p = 777 THEN "777" ELSE "4242"]

HasLaunch == launch_file.exists /\ DOMAIN launch_file.json = LaunchKeys

GivenPlatform == launch_file.json.platform

GivenUdid == launch_file.json.udid

GivenPid == PidText[launch_file.json.pid]

\* C4: with platform "device" a completed attach run has issued
\* 'device select <udid>' and later 'device process attach --pid <pid>',
\* and no run, completed or aborted, issues a platform select or platform
\* connect directive.
C4_DeviceBranch ==
    (variant \in AttachVariants /\ HasLaunch /\ GivenPlatform = "device") =>
        /\ IssuedAt({"platform-select", "platform-connect"}) = {}
        /\ pc = "done" =>
              \E i, j \in 1..Len(issued) :
                  /\ i < j
                  /\ issued[i].text = "device select " \o GivenUdid
                  /\ issued[j].text = "device process attach --pid " \o GivenPid

C4_Witness ==
    /\ variant = "cli"
    /\ pc = "done"
    /\ HasLaunch
    /\ GivenPlatform = "device"
    /\ issued[4].text = "device select 00008110-ABCDEF"
    /\ issued[5].text = "device process attach --pid 777"

\* C5: with any platform tag other than "device" a completed attach run has
\* issued 'platform select <platform>', then 'platform connect <udid>', then
\* 'process attach --pid <pid>', in that order.
C5_EmulatedBranch ==
    (variant \in AttachVariants /\ HasLaunch /\ GivenPlatform # "device"
        /\ pc = "done") =>
        \E i, j, k \in 1..Len(issued) :
            /\ i < j
            /\ j < k
            /\ issued[i].text = "platform select " \o GivenPlatform
            /\ issued[j].text = "platform connect " \o GivenUdid
            /\ issued[k].text = "process attach --pid " \o GivenPid

C5_Witness ==
    /\ variant = "ide"
    /\ pc = "done"
    /\ HasLaunch
    /\ GivenPlatform = "macosx"
    /\ issued[5].text = "platform select macosx"
    /\ issued[6].text = "platform connect SIM-1"
    /\ issued[7].text = "process attach --pid 4242"


ExternalRule == Rule("./external/", output_base \o "/external/")

GeneralRule ==
    IF variant = "ide" THEN Rule(".", workspace_root)
    ELSE Rule("./", output_base \o "/execroot/_main/")

\* Both source-map directives are the second and third call of every script.
BothSourceMapDirectivesSucceeded == pc \in {"run", "done"} /\ step >= 4

\* C6: for any pre-existing rule list and for both issuing orders (insert
\* then append in the Example scripts, append then insert in the ide
\* script), once both directives have succeeded the external rule heads the
\* rule list, the general rule ends it, and every occurrence of the general
\* rule has the external rule before it.
C6_ExternalBeforeGeneral ==
    BothSourceMapDirectivesSucceeded =>
        /\ Len(source_map) >= 2
        /\ source_map[1] = ExternalRule
        /\ Last(source_map) = GeneralRule
        /\ \A j \in 1..Len(source_map) :
              source_map[j] = GeneralRule =>
                  \E i \in 1..(j - 1) : source_map[i] = ExternalRule

C6_Witness ==
    /\ variant = "ide"
    /\ BothSourceMapDirectivesSucceeded
    /\ Len(source_map) = 4
    /\ source_map[2] = Rule("./", "/tmp/ob/execroot/_main/")

\* C7: a successful 'settings insert-before target.source-map 0' step puts
\* the external rule at index 0 of the rule list and leaves every rule that
\* was there before behind it, in the same order.
C7_InsertedAtFront ==
    [][(/\ issued' # issued
        /\ Last(issued').kind = "insert-before"
        /\ result'.succeeded)
       => source_map' = <<ExternalRule>> \o source_map]_vars

C7_Witness ==
    /\ issued # <<>>
    /\ Last(issued).kind = "insert-before"
    /\ result.succeeded
    /\ Len(source_map) = 3
    /\ source_map[1] = ExternalRule
    /\ source_map[2] = Rule("./", "/tmp/ob/execroot/_main/")

\* The output base as it stands in the side-channel file.
GivenOutputBase == Head(output_base_file.text)

\* C8: a cli run with a non-device platform tag P, target U, pid N and output
\* base B in which every directive succeeds issues exactly these six
\* directives, in this order.
C8_CliSixDirectives ==
    (variant = "cli" /\ pc = "done" /\ GivenPlatform # "device") =>
        /\ IssuedTexts =
            <<"platform settings -w \"" \o GivenOutputBase \o "/execroot/_main\"",
              "settings insert-before target.source-map 0 \"./external/\" \""
                  \o GivenOutputBase \o "/external/\"",
              "settings append target.source-map \"./\" \""
                  \o GivenOutputBase \o "/execroot/_main/\"",
              "platform select " \o GivenPlatform,
              "platform connect " \o GivenUdid,
              "process attach --pid " \o GivenPid>>
        /\ [i \in 1..Len(issued) |-> issued[i].kind] =
            <<"workdir", "insert-before", "append", "platform-select",
              "platform-connect", "process-attach">>
        /\ issued[2].index = 0

C8_Witness ==
    /\ variant = "cli"
    /\ pc = "done"
    /\ IssuedTexts =
        <<"platform settings -w \"/tmp/ob/execroot/_main\"",
          "settings insert-before target.source-map 0 \"./external/\" \"/tmp/ob/external/\"",
          "settings append target.source-map \"./\" \"/tmp/ob/execroot/_main/\"",
          "platform select iphonesimulator",
          "platform connect SIM-1",
          "process attach --pid 4242">>

\* C9 as claimed: in every variant the insert-before directive is issued
\* before the append directive.
C9_InsertBeforeAppendEverywhere ==
    \A i \in IssuedAt({"append"}) :
        \E j \in IssuedAt({"insert-before"}) : j < i

\* C9, amended: the Example scripts (inject, cli) issue the insert-before
\* directive for the external rule before the append directive for the
\* general rule; the ide script issues the append directive first and the
\* insert-before directive second.
C9_SourceMapIssueOrder ==
    /\ variant \in {"inject", "cli"} =>
          \A i \in IssuedAt({"append"}) :
              \E j \in IssuedAt({"insert-before"}) : j < i
    /\ variant = "ide" =>
          \A j \in IssuedAt({"insert-before"}) :
              \E i \in IssuedAt({"append"}) : i < j

C9_Witness ==
    /\ variant = "ide"
    /\ Len(issued) >= 3
    /\ issued[2].kind = "append"
    /\ issued[3].kind = "insert-before"

\* C10 as claimed: the error raised by run_command carries the engine's
\* error text.
C10_ErrorCarriesEngineText ==
    ~result.succeeded => exc.msg = result.error

\* C10, amended: when the engine reports failure run_command writes the
\* engine's error text verbatim to the error channel (nothing when the text
\* is empty) and raises RuntimeError with the fixed message "Command failed.
\* See above for any error messages."
C10_ErrorTextPrintedThenFixedMessage ==
    ~result.succeeded =>
        /\ exc = [type |-> "RuntimeError",
                  msg |-> "Command failed. See above for any error messages."]
        /\ result.error # "" => console.err = <<result.error>>
        /\ result.error = "" => console.err = <<>>

C10_Witness ==
    /\ ~result.succeeded
    /\ result.error = "error: the engine rejected the command"
    /\ console.err = <<"error: the engine rejected the command">>
    /\ exc.type = "RuntimeError"


-----------------------------------------------------------------------------
(* Properties of the loading steps and of the whole run *)

\* The launch record lacks one of the three keys, or its platform or udid
\* is the empty string.
MalformedLaunch ==
    /\ launch_file.exists
    /\ \/ DOMAIN launch_file.json # LaunchKeys
       \/ \E k \in {"platform", "udid"} :
             k \in DOMAIN launch_file.json /\ launch_file.json[k] = ""

\* C11: with a launch record in which one of platform, udid, pid is missing
\* or empty, the run issues no engine directive and neither completes nor
\* exits cleanly.
C11_FailFastOnMalformedLaunch ==
    MalformedLaunch => (issued = <<>> /\ pc \notin {"done", "exited"})


\* C12: whatever becomes of the kill signal (delivered, no such process,
\* permission denied, delivered to a process that reuses the pid), the
\* terminator has completed and has raised nothing.
C12_TerminatorNeverRaises ==
    (variant = "kill" /\ signal # "none") => (pc = "done" /\ exc = NoExc)

C12_Witness ==
    /\ variant = "kill"
    /\ signal = "permission_denied"
    /\ kill_pid = 777
    /\ pc = "done"


\* The build-location source the variant reads is absent.
BuildInfoAbsent ==
    CASE variant \in {"inject", "cli"} -> ~output_base_file.exists
      [] variant = "ide"               -> ~bazel_info_src.exists
      [] OTHER                         -> FALSE

\* Where each script reads its build locations.
BuildPc ==
    [inject |-> "read_output_base", cli |-> "load_output_base",
     ide |-> "load_bazel_info", kill |-> "none"]

\* C13: with launch info present and the build-location metadata absent, no
\* engine directive is issued and the run ends in the error of the failed
\* read, which propagates to the host; the run never completes.
C13_MissingBuildInfoIsFatal ==
    (launch_file.exists /\ BuildInfoAbsent) =>
        /\ issued = <<>>
        /\ pc \in {FirstPc[variant], BuildPc[variant], "raised"}
        /\ pc = "raised" =>
              /\ exc.type \in {"FileNotFoundError", "MissingBuildInfo"}
              /\ exit_code = NoExit

C13_Witness ==
    /\ variant = "inject"
    /\ launch_file.exists
    /\ ~output_base_file.exists
    /\ pc = "raised"
    /\ exc.type = "FileNotFoundError"
    /\ issued = <<>>


\* Directives handed to the engine whose result has not come back.
Outstanding == Len(issued) - completed

\* C14: at most one directive is outstanding at the engine, and a directive
\* is issued only when every earlier one has come back and the latest one
\* has come back with success; each step issues one directive.
C14_NoPipelining ==
    /\ [](Outstanding \in {0, 1})
    /\ [][issued' # issued =>
            /\ Len(issued') = Len(issued) + 1
            /\ SubSeq(issued', 1, Len(issued)) = issued
            /\ Outstanding = 0
            /\ issued # <<>> => result.succeeded]_vars

C14_Witness ==
    /\ variant = "cli"
    /\ Len(issued) = 4
    /\ completed = 4
    /\ result.succeeded
    /\ pc = "run"


\* C15: once both source-map directives have succeeded, every embedded path
\* that begins with "./external/" is rewritten by the external rule, to
\* outputBase/external/ plus the remainder, and not by the general rule,
\* whose prefix begins that path as well.
C15_ExternalPathsUseExternalRule ==
    BothSourceMapDirectivesSucceeded =>
        \A path \in EmbeddedPaths :
            StartsWith(path, "./external/") =>
                /\ StartsWith(path, GeneralRule.from)
                /\ FirstMatch(source_map, path) = 1
                /\ RemapPath(source_map, path) =
                      output_base \o "/external/" \o Remainder(path, "./external/")
                /\ RemapPath(source_map, path) #
                      GeneralRule.to \o Remainder(path, GeneralRule.from)

C15_Witness ==
    /\ variant = "ide"
    /\ BothSourceMapDirectivesSucceeded
    /\ Len(source_map) = 3
    /\ source_map[2] = Rule("./", "/tmp/ob/execroot/_main/")
    /\ output_base = "/var/_bazel/ab12"
    /\ RemapPath(source_map, "./external/dep/a.swift") =
          "/var/_bazel/ab12/external/dep/a.swift"


Step5Kinds == TargetKinds \cup AttachKinds

\* C16: in the ide script every step-5 directive (device select, platform
\* select, platform connect, either attach) has the packet-timeout directive
\* issued before it, in the device branch and in the other branch.
C16_PacketTimeoutBeforeDispatch ==
    variant = "ide" =>
        \A i \in IssuedAt(Step5Kinds) :
            \E j \in IssuedAt({"packet-timeout"}) :
                /\ j < i
                /\ issued[j].text =
                      "settings set plugin.process.gdb-remote.packet-timeout 300"

C16_Witness ==
    /\ variant = "ide"
    /\ pc = "done"
    /\ issued[4].kind = "packet-timeout"
    /\ issued[5].kind = "device-select"
    /\ issued[6].kind = "device-attach"

\* C17: in every run, completed or aborted, no directive is issued twice; at
\* most one attach directive is issued, and a directive that failed is the
\* last one of the run.
C17_NoRetry ==
    /\ \A i, j \in 1..Len(issued) : i # j => issued[i].text # issued[j].text
    /\ Cardinality(IssuedAt(AttachKinds)) <= 1
    /\ ~result.succeeded => completed = Len(issued)

C17_Witness ==
    /\ variant = "cli"
    /\ pc = "raised"
    /\ ~result.succeeded
    /\ Last(issued).kind = "process-attach"
    /\ Len(issued) = 6

DeviceFamily == {"device-select", "device-attach"}

EmulatedFamily == {"platform-select", "platform-connect", "process-attach"}

\* C18: in every reachable state the issued directives belong to one family
\* only, the device family when the platform is "device" and the
\* emulated-target family otherwise.
C18_DispatchesAgree ==
    /\ ~(IssuedAt(DeviceFamily) # {} /\ IssuedAt(EmulatedFamily) # {})
    /\ IssuedAt(DeviceFamily) # {} => device_platform = "device"
    /\ IssuedAt(EmulatedFamily) # {} => device_platform # "device"

C18_Witness ==
    /\ variant = "ide"
    /\ pc = "done"
    /\ IssuedAt({"device-select"}) # {}
    /\ IssuedAt({"device-attach"}) # {}
    /\ IssuedAt(EmulatedFamily) = {}

\* C19: with the launch-info source and the build-location source both
\* absent, the run ends in the clean exit of missing launch info (status
\* zero, no directive) and never in the error of the build-location read.
C19_LaunchCheckBeforeBuildRead ==
    (~launch_file.exists /\ BuildInfoAbsent) =>
        /\ pc # "raised"
        /\ exc.type \notin {"FileNotFoundError", "MissingBuildInfo"}
        /\ issued = <<>>
        /\ pc # FirstPc[variant] => (pc = "exited" /\ exit_code = 0)

C19_Witness ==
    /\ variant = "inject"
    /\ ~launch_file.exists
    /\ ~output_base_file.exists
    /\ pc = "exited"
    /\ console.err = <<"Launch info file not found. Exiting.">>


====
